---- MODULE Spec2Model ----
(***************************************************************************)
(* Model of server.py: the listings / settings backend of "unhinged        *)
(* listings".  The state is the two MongoDB collections (db.listings and   *)
(* db.site_settings), the store's ObjectId allocator, the wall clock, and  *)
(* for every client the handler it is executing and the position in it.    *)
(* A handler that awaits several store operations is one action per store  *)
(* operation: requests of other clients interleave between its awaits.     *)
(*                                                                         *)
(* Documents are functions from field names to values, so a field can be   *)
(* missing (the seeded listings carry no sortOrder).  Of a listing's       *)
(* fields the model keeps title, status, category, createdAt, updatedAt    *)
(* and sortOrder; price, image, excerpt, fullText, facebookUrl, location   *)
(* and postedDate are stored and returned like title and are left out.     *)
(* ObjectIds are the naturals 1, 2, ... in allocation order; the id 0      *)
(* stands for a string that is not a well-formed ObjectId.                 *)
(***************************************************************************)
EXTENDS Integers, Sequences, FiniteSets, TLC

VARIABLES
    listings,       \* db.listings: ObjectId -> document
    site_settings,  \* db.site_settings: _id -> document (at most "site")
    nextOid,        \* the next ObjectId the store hands out
    now,            \* datetime.utcnow(), a logical clock
    calls,          \* number of requests received so far
    pc,             \* per client: the await its handler is suspended at
    loc,            \* per client: the handler's local variables
    resp,           \* per client: the last HTTP response it received
    sresp,          \* the settings map GET /api/settings answered last
    last,           \* the request received last: client, endpoint, password,
                    \* listing id and ListingUpdate body
    deleted,        \* history: ids whose Delete answered 200
    returned,       \* history: ids answered by a successful Create
    run,            \* history: ids of the Creates completed back to back
    reordered,      \* history: the order of the Reorder that just completed
    supplied,       \* history: per settings key, the value last supplied
    submitted       \* history: per client, the order of its latest Reorder and
                    \* whether another Reorder was in flight during it

vars == <<listings, site_settings, nextOid, now, calls, pc, loc, resp, sresp,
          last, deleted, returned, run, reordered, supplied, submitted>>

-----------------------------------------------------------------------------
(* Bounds of the model *)

MaxCalls == 3          \* requests received in one behaviour of Spec
MaxSeqCalls == 3       \* requests received in one behaviour of SpecSeq
MaxSettingsCalls == 3  \* requests received in one behaviour of SpecSettings
MaxReorderCalls == 3   \* requests received in one behaviour of SpecReorder
Clients == {"c1", "c2"}

-----------------------------------------------------------------------------
(* Configuration and constants of server.py *)

ADMIN_PASSWORD == "changeme"
ListCap == 200
DefaultSortOrder == 999
None == "<None>"

Min(a, b) == IF a < b THEN a ELSE b

HasField(doc, f) == f \in DOMAIN doc
\* dict.get(f, default)
GetField(doc, f, default) == IF f \in DOMAIN doc THEN doc[f] ELSE default
\* a document with field f set to v
SetField(doc, f, v) == [k \in DOMAIN doc \cup {f} |-> IF k = f THEN v ELSE doc[k]]

\* ObjectId.is_valid
is_valid(lid) == lid \in Nat /\ lid >= 1

-----------------------------------------------------------------------------
(* The listings collection *)

\* MongoDB's comparison for sort("sortOrder", 1): a document without the
\* field sorts as null, before every number.
SortKeyLess(da, db) ==
    IF HasField(da, "sortOrder")
    THEN HasField(db, "sortOrder") /\ da.sortOrder < db.sortOrder
    ELSE HasField(db, "sortOrder")

\* Merge of two sorted id sequences; on equal keys the ids of s come first.
RECURSIVE Merge(_, _, _)
Merge(L, s, t) ==
    IF s = <<>> THEN t
    ELSE IF t = <<>> THEN s
    ELSE LET m == (Len(s) + 1) \div 2
             p == Cardinality({j \in 1..Len(t) : SortKeyLess(L[t[j]], L[s[m]])})
         IN  Merge(L, SubSeq(s, 1, m - 1), SubSeq(t, 1, p)) \o <<s[m]>>
             \o Merge(L, SubSeq(s, m + 1, Len(s)), SubSeq(t, p + 1, Len(t)))

\* A stable sort of a sequence of ids by the sort key of their documents:
\* documents with equal keys stay in the order they had.
RECURSIVE SortIds(_, _)
SortIds(L, s) ==
    IF Len(s) <= 1 THEN s
    ELSE LET h == Len(s) \div 2
         IN  Merge(L, SortIds(L, SubSeq(s, 1, h)), SortIds(L, SubSeq(s, h + 1, Len(s))))

\* The ids of S between lo and hi in the store's natural order, the order
\* of insertion
RECURSIVE IdsBetween(_, _, _)
IdsBetween(S, lo, hi) ==
    IF lo > hi THEN <<>>
    ELSE IF lo = hi THEN (IF lo \in S THEN <<lo>> ELSE <<>>)
    ELSE LET mid == (lo + hi) \div 2
         IN  IdsBetween(S, lo, mid) \o IdsBetween(S, mid + 1, hi)

MaxOf(S) == CHOOSE x \in S : \A y \in S : y <= x

NaturalOrder(S) == IF S = {} THEN <<>> ELSE IdsBetween(S, 1, MaxOf(S))

\* db.listings.find(query).sort("sortOrder", 1): the matching ids in order
find_sorted(L, category) ==
    SortIds(L, NaturalOrder({i \in DOMAIN L : category = None \/ L[i].category = category}))

\* Faulty variant: the cap cuts one entry too early
to_list_OffByOne(s, length) == SubSeq(s, 1, Min(Len(s), length - 1))

\* cursor.to_list(length)
to_list(s, length) == SubSeq(s, 1, Min(Len(s), length))

listing_to_dict(id, doc) ==
    [id        |-> id,
     title     |-> doc.title,
     status    |-> doc.status,
     category  |-> doc.category,
     createdAt |-> doc.createdAt,
     sortOrder |-> GetField(doc, "sortOrder", DefaultSortOrder)]

\* Faulty variant: "if category": the value "all" is taken as a category
get_listings_AllIsCategory(L, category) ==
    LET query == IF category # None /\ category # ""
                 THEN category ELSE None
        found == to_list(find_sorted(L, query), ListCap)
    IN  [i \in 1..Len(found) |-> listing_to_dict(found[i], L[found[i]])]

\* GET /api/listings?category=  (category = None: the parameter is absent)
get_listings(L, category) ==
    LET query == IF category # None /\ category # "" /\ category # "all"
                 THEN category ELSE None
        found == to_list(find_sorted(L, query), ListCap)
    IN  [i \in 1..Len(found) |-> listing_to_dict(found[i], L[found[i]])]

\* GET /api/listings/{listing_id}
get_listing(L, listing_id) ==
    IF ~is_valid(listing_id) THEN [status |-> 404, body |-> <<>>]
    ELSE IF listing_id \notin DOMAIN L THEN [status |-> 404, body |-> <<>>]
    ELSE [status |-> 200, body |-> <<listing_to_dict(listing_id, L[listing_id])>>]

\* Faulty variant: the new listing takes the maximum itself, not one more
NextSortOrder_NoIncrement(L) ==
    IF DOMAIN L = {} THEN 0
    ELSE LET withOrder == {i \in DOMAIN L : "sortOrder" \in DOMAIN L[i]}
         IN  IF withOrder = {} THEN 0
             ELSE CHOOSE x \in {L[i].sortOrder : i \in withOrder} :
                     \A y \in {L[i].sortOrder : i \in withOrder} : y <= x

\* db.listings.find_one(sort=[("sortOrder", -1)]) followed by
\* (max_order.get("sortOrder", 0) + 1) if max_order else 0
NextSortOrder(L) ==
    IF DOMAIN L = {} THEN 0
    ELSE LET withOrder == {i \in DOMAIN L : HasField(L[i], "sortOrder")}
         IN  IF withOrder = {} THEN 0 + 1
             ELSE MaxOf({L[i].sortOrder : i \in withOrder}) + 1

insert_one(L, id, doc) == [i \in DOMAIN L \cup {id} |-> IF i = id THEN doc ELSE L[i]]

delete_one(L, id) == [i \in DOMAIN L \ {id} |-> L[i]]

\* Faulty variant: update_one(..., upsert=True): no match, a document is inserted
update_one_Upsert(L, id, fields) ==
    LET old == IF id \in DOMAIN L THEN L[id]
               ELSE [title |-> "", status |-> "", category |-> "", createdAt |-> 0]
    IN  [i \in DOMAIN L \cup {id} |->
            IF i = id
            THEN [k \in DOMAIN old \cup DOMAIN fields |->
                    IF k \in DOMAIN fields THEN fields[k] ELSE old[k]]
            ELSE L[i]]

\* update_one({"_id": id}, {"$set": fields}) without upsert: no match, no change
update_one(L, id, fields) ==
    IF id \notin DOMAIN L THEN L
    ELSE [L EXCEPT ![id] =
            [k \in DOMAIN L[id] \cup DOMAIN fields |->
                IF k \in DOMAIN fields THEN fields[k] ELSE L[id][k]]]

-----------------------------------------------------------------------------
(* Seed data *)

mock_listings ==
    << [title |-> "8 Gal Stainless Steel Round Garbage Can", status |-> "Out of Stock", category |-> "household"],
       [title |-> "Zero Gravity Lounge Chair", status |-> "Sold", category |-> "furniture"],
       [title |-> "Husky Workbench", status |-> "In Stock", category |-> "tools"],
       [title |-> "Fancy Pants Opera Glasses", status |-> "In Stock", category |-> "vintage"],
       [title |-> "Ryobi Power Tool Bundle", status |-> "In Stock", category |-> "tools"] >>

\* seed_initial_data at time t: insert_many into the empty collection
seed_initial_data(t) ==
    [i \in 1..Len(mock_listings) |->
        [title |-> mock_listings[i].title, status |-> mock_listings[i].status,
         category |-> mock_listings[i].category, createdAt |-> t, updatedAt |-> t]]

-----------------------------------------------------------------------------
(* The settings collection.  A JSON value is a record with one field:      *)
(* [str |-> s] a string, [list |-> q] an array, [doc |-> d] an object.     *)
(* A key of a $set document is a sequence of path components: MongoDB      *)
(* reads the key "a.b" as the path <<"a", "b">>.                           *)

JStr(s) == [str |-> s]
JList(q) == [list |-> q]
JDoc(d) == [doc |-> d]
IsDoc(v) == "doc" \in DOMAIN v

DEFAULT_SETTINGS ==
    [siteTitle  |-> JStr("unhinged listings"),
     tagline    |-> JStr("where mundane commerce meets existential dread"),
     categories |-> JList(<<"all", "household", "furniture", "tools", "vintage">>),
     footerText |-> JStr("unhinged listings | all rights reserved to question reality through commerce")]

\* GET /api/settings
get_settings(S) ==
    IF "site" \in DOMAIN S
    THEN LET settings == S["site"]
         IN  [k \in DOMAIN settings \cup DOMAIN DEFAULT_SETTINGS |->
                 IF k \in DOMAIN settings THEN settings[k] ELSE DEFAULT_SETTINGS[k]]
    ELSE DEFAULT_SETTINGS

\* GET /api/categories
get_categories(S) ==
    IF "site" \in DOMAIN S /\ "categories" \in DOMAIN S["site"]
    THEN S["site"].categories
    ELSE DEFAULT_SETTINGS.categories

\* Whether MongoDB accepts {"$set": data} on document doc: no path may be a
\* prefix of another, and a path below a field needs the field to be absent
\* or an embedded document.
SetAccepted(doc, data) ==
    /\ \A p \in DOMAIN data, q \in DOMAIN data :
          p # q => ~(Len(p) < Len(q) /\ SubSeq(q, 1, Len(p)) = p)
    /\ \A p \in DOMAIN data :
          Len(p) = 2 => (p[1] \notin DOMAIN doc \/ IsDoc(doc[p[1]]))

\* The value of top-level field k after {"$set": data}
SetValue(doc, data, k) ==
    IF <<k>> \in DOMAIN data THEN data[<<k>>]
    ELSE LET below == {p \in DOMAIN data : Len(p) = 2 /\ p[1] = k}
             old == IF k \in DOMAIN doc THEN doc[k].doc ELSE [f \in {} |-> JStr("")]
         IN  IF below = {} THEN doc[k]
             ELSE JDoc([f \in DOMAIN old \cup {p[2] : p \in below} |->
                          IF <<k, f>> \in below THEN data[<<k, f>>] ELSE old[f]])

\* db.site_settings.update_one({"_id": "site"}, {"$set": data}, upsert=True)
upsert_settings(S, data) ==
    LET doc == IF "site" \in DOMAIN S THEN S["site"] ELSE [f \in {} |-> JStr("")]
        new == [k \in DOMAIN doc \cup {p[1] : p \in DOMAIN data} |-> SetValue(doc, data, k)]
    IN  [i \in {"site"} |-> new]

-----------------------------------------------------------------------------
(* Requests *)

Invalid == "<invalid>"   \* a JSON value of a type the pydantic model rejects

\* ListingCreate: title and category are required strings
ListingCreateValid(body) ==
    /\ {"title", "category"} \subseteq DOMAIN body
    /\ \A k \in DOMAIN body \cap {"title", "status", "category"} : body[k] # Invalid /\ body[k] # None

\* ListingUpdate: every field is an optional string
ListingUpdateValid(updates) ==
    \A k \in DOMAIN updates \cap {"title", "status", "category"} : updates[k] # Invalid

\* listing.dict(): the model's fields with their defaults, unknown fields dropped
ListingCreateDict(body) ==
    [title |-> body.title, status |-> GetField(body, "status", "In Stock"), category |-> body.category]

\* Faulty variant: {k: v for k, v in updates.dict().items()}: nulls are kept
UpdateData_KeepNull(updates) ==
    [k \in DOMAIN updates \cap {"title", "status", "category"} |-> updates[k]]

\* {k: v for k, v in updates.dict().items() if v is not None}
UpdateData(updates) ==
    [k \in {f \in DOMAIN updates \cap {"title", "status", "category"} : updates[f] # None} |-> updates[k]]

verify_admin(password) == password = ADMIN_PASSWORD

NoFields == [k \in {} |-> None]
NoLoc == [id |-> 0, doc |-> NoFields, order |-> <<>>, i |-> 0, start |-> 0]
Response(op, status, body) == [op |-> op, status |-> status, body |-> body]

\* A request arrives: it is counted and recorded, and time has passed.
Receive(c, op, pw, id, upd) ==
    /\ pc[c] = "idle"
    /\ calls' = calls + 1
    /\ now' = now + 1
    /\ last' = [c |-> c, op |-> op, pw |-> pw, id |-> id, upd |-> upd]

Reply(c, op, status, body) ==
    /\ resp' = [resp EXCEPT ![c] = Response(op, status, body)]
    /\ pc' = [pc EXCEPT ![c] = "idle"]
    /\ loc' = [loc EXCEPT ![c] = NoLoc]

Suspend(c, at, l) ==
    /\ pc' = [pc EXCEPT ![c] = at]
    /\ loc' = [loc EXCEPT ![c] = l]
    /\ resp' = resp

\* No request of another client is in flight.
Exclusive(c) == \A d \in Clients \ {c} : pc[d] = "idle"

-----------------------------------------------------------------------------
(* Public routes *)

\* GET /api/listings
CallGetListings(c, category) ==
    /\ Receive(c, "get_listings", None, 0, [category |-> category])
    /\ Reply(c, "get_listings", 200, get_listings(listings, category))
    /\ UNCHANGED <<listings, site_settings, nextOid, sresp, deleted, returned, run,
                   reordered, supplied, submitted>>

\* GET /api/listings/{listing_id}
CallGetListing(c, listing_id) ==
    /\ Receive(c, "get_listing", None, listing_id, NoFields)
    /\ LET r == get_listing(listings, listing_id)
       IN  Reply(c, "get_listing", r.status, r.body)
    /\ UNCHANGED <<listings, site_settings, nextOid, sresp, deleted, returned, run,
                   reordered, supplied, submitted>>

\* GET /api/settings
CallGetSettings(c) ==
    /\ Receive(c, "get_settings", None, 0, NoFields)
    /\ sresp' = get_settings(site_settings)
    /\ Reply(c, "get_settings", 200, <<>>)
    /\ UNCHANGED <<listings, site_settings, nextOid, deleted, returned, run,
                   reordered, supplied, submitted>>

\* GET /api/categories
CallGetCategories(c) ==
    /\ Receive(c, "get_categories", None, 0, NoFields)
    /\ sresp' = [k \in {"categories"} |-> get_categories(site_settings)]
    /\ Reply(c, "get_categories", 200, <<>>)
    /\ UNCHANGED <<listings, site_settings, nextOid, deleted, returned, run,
                   reordered, supplied, submitted>>

-----------------------------------------------------------------------------
(* Admin routes.  FastAPI validates a declared request body (ListingCreate, *)
(* ListingUpdate) before it calls the handler, so a body that fails the     *)
(* model is answered 422 before verify_admin runs.                          *)

\* POST /api/admin/verify
CallVerify(c, password) ==
    /\ Receive(c, "admin_verify", password, 0, NoFields)
    /\ Reply(c, "admin_verify", IF verify_admin(password) THEN 200 ELSE 401, <<>>)
    /\ UNCHANGED <<listings, site_settings, nextOid, sresp, deleted, returned, run,
                   reordered, supplied, submitted>>

\* data["updatedAt"] = datetime.utcnow().isoformat()
Stamped(data, t) ==
    [p \in DOMAIN data \cup {<<"updatedAt">>} |->
        IF p = <<"updatedAt">> THEN [time |-> t] ELSE data[p]]

\* The keys of DEFAULT_SETTINGS an update supplies, with their values.
Supplies(data) ==
    [k \in {d \in DOMAIN DEFAULT_SETTINGS : <<d>> \in DOMAIN data} |-> data[<<k>>]]

\* PUT /api/admin/settings
update_settings(c, password, data) ==
    /\ Receive(c, "update_settings", password, 0, NoFields)
    /\ LET doc == IF "site" \in DOMAIN site_settings THEN site_settings["site"]
                  ELSE [f \in {} |-> JStr("")]
           set == Stamped(data, now')
       IN  IF ~verify_admin(password)
           THEN /\ Reply(c, "update_settings", 401, <<>>)
                /\ UNCHANGED <<site_settings, supplied>>
           ELSE IF ~SetAccepted(doc, set)
           THEN /\ Reply(c, "update_settings", 500, <<>>)
                /\ UNCHANGED <<site_settings, supplied>>
           ELSE /\ site_settings' = upsert_settings(site_settings, set)
                /\ supplied' = [k \in DOMAIN supplied \cup DOMAIN Supplies(data) |->
                                  IF k \in DOMAIN Supplies(data) THEN Supplies(data)[k]
                                  ELSE supplied[k]]
                /\ Reply(c, "update_settings", 200, <<>>)
    /\ run' = <<>>
    /\ reordered' = <<>>
    /\ UNCHANGED <<listings, nextOid, sresp, deleted, returned, submitted>>

\* The document create_listing builds before it inserts it.
NewListing(body, t, L) ==
    [title     |-> ListingCreateDict(body).title,
     status    |-> ListingCreateDict(body).status,
     category  |-> ListingCreateDict(body).category,
     createdAt |-> t,
     updatedAt |-> t,
     sortOrder |-> NextSortOrder(L)]

\* POST /api/admin/listings, up to the await of insert_one
create_listing(c, password, body) ==
    /\ Receive(c, "create_listing", password, 0, NoFields)
    /\ IF ~ListingCreateValid(body)
       THEN Reply(c, "create_listing", 422, <<>>) /\ run' = <<>>
       ELSE IF ~verify_admin(password)
       THEN Reply(c, "create_listing", 401, <<>>) /\ run' = <<>>
       ELSE /\ Suspend(c, "create_insert",
                       [NoLoc EXCEPT !.doc = NewListing(body, now', listings),
                                     !.start = calls'])
            /\ run' = IF Exclusive(c) THEN run ELSE <<>>
    /\ reordered' = <<>>
    /\ UNCHANGED <<listings, site_settings, nextOid, sresp, deleted, returned, supplied, submitted>>

\* result = await db.listings.insert_one(doc)
create_insert(c) ==
    /\ pc[c] = "create_insert"
    /\ listings' = insert_one(listings, nextOid, loc[c].doc)
    /\ nextOid' = nextOid + 1
    /\ Suspend(c, "create_fetch", [loc[c] EXCEPT !.id = nextOid])
    /\ UNCHANGED <<site_settings, now, calls, sresp, last, deleted, returned, run,
                   reordered, supplied, submitted>>

\* created = await db.listings.find_one({"_id": result.inserted_id}); the
\* document may be gone by then, and listing_to_dict(None) raises
create_fetch(c) ==
    /\ pc[c] = "create_fetch"
    /\ LET id == loc[c].id
           found == id \in DOMAIN listings
       IN  /\ IF found
              THEN Reply(c, "create_listing", 200, <<listing_to_dict(id, listings[id])>>)
              ELSE Reply(c, "create_listing", 500, <<>>)
           /\ returned' = IF found THEN returned \cup {id} ELSE returned
           /\ run' = IF found /\ loc[c].start = calls /\ Exclusive(c)
                     THEN Append(run, id) ELSE <<>>
    /\ UNCHANGED <<listings, site_settings, nextOid, now, calls, sresp, last, deleted,
                   reordered, supplied, submitted>>

\* PUT /api/admin/listings/{listing_id}, up to the await of find_one
update_listing(c, listing_id, updates, password) ==
    /\ Receive(c, "update_listing", password, listing_id, updates)
    /\ LET update_data == UpdateData(updates)
       IN  IF ~ListingUpdateValid(updates)
           THEN Reply(c, "update_listing", 422, <<>>) /\ listings' = listings
           ELSE IF ~verify_admin(password)
           THEN Reply(c, "update_listing", 401, <<>>) /\ listings' = listings
           ELSE IF ~is_valid(listing_id)
           THEN Reply(c, "update_listing", 404, <<>>) /\ listings' = listings
           ELSE IF DOMAIN update_data = {}
           THEN Reply(c, "update_listing", 400, <<>>) /\ listings' = listings
           ELSE /\ listings' = update_one(listings, listing_id,
                                          SetField(update_data, "updatedAt", now'))
                /\ IF listing_id \notin DOMAIN listings
                   THEN Reply(c, "update_listing", 404, <<>>)
                   ELSE Suspend(c, "update_fetch", [NoLoc EXCEPT !.id = listing_id])
    /\ run' = <<>>
    /\ reordered' = <<>>
    /\ UNCHANGED <<site_settings, nextOid, sresp, deleted, returned, supplied, submitted>>

\* updated = await db.listings.find_one({"_id": ObjectId(listing_id)})
update_fetch(c) ==
    /\ pc[c] = "update_fetch"
    /\ LET id == loc[c].id
       IN  IF id \in DOMAIN listings
           THEN Reply(c, "update_listing", 200, <<listing_to_dict(id, listings[id])>>)
           ELSE Reply(c, "update_listing", 500, <<>>)
    /\ UNCHANGED <<listings, site_settings, nextOid, now, calls, sresp, last, deleted,
                   returned, run, reordered, supplied, submitted>>

\* DELETE /api/admin/listings/{listing_id}: status and collection afterwards
delete_result(L, listing_id, password) ==
    IF ~verify_admin(password) THEN [status |-> 401, listings |-> L]
    ELSE IF ~is_valid(listing_id) THEN [status |-> 404, listings |-> L]
    ELSE IF listing_id \notin DOMAIN L THEN [status |-> 404, listings |-> L]
    ELSE [status |-> 200, listings |-> delete_one(L, listing_id)]

delete_listing(c, listing_id, password) ==
    /\ Receive(c, "delete_listing", password, listing_id, NoFields)
    /\ LET r == delete_result(listings, listing_id, password)
       IN  /\ listings' = r.listings
           /\ Reply(c, "delete_listing", r.status, <<>>)
           /\ deleted' = IF r.status = 200 THEN deleted \cup {listing_id} ELSE deleted
    /\ run' = <<>>
    /\ reordered' = <<>>
    /\ UNCHANGED <<site_settings, nextOid, sresp, returned, supplied, submitted>>

\* PUT /api/admin/reorder, up to the first await of update_one
reorder_listings(c, password, order) ==
    /\ Receive(c, "reorder_listings", password, 0, NoFields)
    /\ IF ~verify_admin(password)
       THEN Reply(c, "reorder_listings", 401, <<>>)
       ELSE IF order = <<>>
       THEN Reply(c, "reorder_listings", 200, <<>>)
       ELSE Suspend(c, "reorder", [NoLoc EXCEPT !.order = order, !.start = calls'])
    /\ submitted' =
          IF verify_admin(password) /\ order # <<>>
          THEN [d \in Clients |->
                  IF d = c
                  THEN [order |-> order,
                        overlapped |-> \E e \in Clients \ {c} : pc[e] = "reorder"]
                  ELSE IF pc[d] = "reorder"
                  THEN [submitted[d] EXCEPT !.overlapped = TRUE]
                  ELSE submitted[d]]
          ELSE submitted
    /\ run' = <<>>
    /\ reordered' = <<>>
    /\ UNCHANGED <<listings, site_settings, nextOid, sresp, deleted, returned, supplied>>

\* Faulty variant: "if i and ObjectId.is_valid(lid)": position 0 is never written
reorder_update_SkipFirst(L, i, lid) ==
    IF i > 0 /\ is_valid(lid) THEN update_one(L, lid, [sortOrder |-> i]) ELSE L

\* Faulty variant: {"$set": {"sortOrder": 0}}, the position is dropped
reorder_update_NoPosition(L, i, lid) ==
    IF is_valid(lid) THEN update_one(L, lid, [sortOrder |-> 0]) ELSE L

\* Faulty variant: update_one(..., upsert=True) in the loop
reorder_update_Upsert(L, i, lid) ==
    IF is_valid(lid) THEN update_one_Upsert(L, lid, [sortOrder |-> i]) ELSE L

\* One pass of "for i, lid in enumerate(order)"
reorder_update(L, i, lid) ==
    IF is_valid(lid) THEN update_one(L, lid, [sortOrder |-> i]) ELSE L

reorder_step(c) ==
    /\ pc[c] = "reorder"
    /\ LET i == loc[c].i
           order == loc[c].order
       IN  /\ listings' = reorder_update(listings, i, order[i + 1])
           /\ IF i + 1 = Len(order)
              THEN /\ Reply(c, "reorder_listings", 200, <<>>)
                   /\ reordered' = IF loc[c].start = calls /\ Exclusive(c)
                                   THEN order ELSE <<>>
              ELSE /\ Suspend(c, "reorder", [loc[c] EXCEPT !.i = i + 1])
                   /\ reordered' = <<>>
    /\ UNCHANGED <<site_settings, nextOid, now, calls, sresp, last, deleted, returned,
                   run, supplied, submitted>>

-----------------------------------------------------------------------------
(* Initial states *)

InitWith(L, oid, t) ==
    /\ listings = L
    /\ site_settings = [i \in {} |-> [f \in {} |-> JStr("")]]
    /\ nextOid = oid
    /\ now = t
    /\ calls = 0
    /\ pc = [c \in Clients |-> "idle"]
    /\ loc = [c \in Clients |-> NoLoc]
    /\ resp = [c \in Clients |-> Response("none", 0, <<>>)]
    /\ sresp = [k \in {} |-> JStr("")]
    /\ last = [c |-> "c1", op |-> "none", pw |-> None, id |-> 0, upd |-> NoFields]
    /\ deleted = {}
    /\ returned = {}
    /\ run = <<>>
    /\ reordered = <<>>
    /\ supplied = [k \in {} |-> JStr("")]
    /\ submitted = [c \in Clients |-> [order |-> <<>>, overlapped |-> FALSE]]

\* lifespan: the collection is empty at the first start, and is seeded
Init == InitWith(seed_initial_data(0), Len(mock_listings) + 1, 0)

\* A collection one listing short of the cap of GET /api/listings: the seed, and
\* Creates one after another at times 1, 2, ...; the k-th of them reads the
\* maximum k - 1 (none for the first: the seed has no sortOrder) and stores k.
FullStore ==
    [i \in 1..(ListCap - 1) |->
        IF i <= Len(mock_listings) THEN seed_initial_data(0)[i]
        ELSE [title |-> "Lamp", status |-> "In Stock", category |-> "household",
              createdAt |-> i - Len(mock_listings), updatedAt |-> i - Len(mock_listings),
              sortOrder |-> i - Len(mock_listings)]]

\* A used collection: the seed after Delete(5) and Reorder([2, 1])
UsedStore ==
    reorder_update(reorder_update(delete_one(seed_initial_data(0), 5), 0, 2), 1, 1)

InitSeq ==
    \/ Init
    \/ InitWith(UsedStore, Len(mock_listings) + 1, 2)
    \/ InitWith(FullStore, ListCap, ListCap - 1 - Len(mock_listings))

-----------------------------------------------------------------------------
(* Inputs *)

Passwords == {ADMIN_PASSWORD, "letmein"}
Lamp == [title |-> "Lamp", category |-> "household"]
CreateBodies == {Lamp, [category |-> "household"]}
UpdatePayloads ==
    {NoFields, [title |-> None, category |-> None], [title |-> "Lamp (sold)"],
     [title |-> None, category |-> "tools"], [status |-> Invalid]}
TargetIds == {0, 1, 6}
Categories == {None, "all", "", "tools", "boats"}
Orders == {<<2, 1>>, <<0, 6, 1>>}
SiteTitleX == [p \in {<<"siteTitle">>} |-> JStr("X")]
SettingsPayloads ==
    {SiteTitleX,
     [p \in {<<"siteTitle">>, <<"tagline">>} |-> JStr("Y")],
     [p \in {<<"tagline">>} |-> JStr("T")],
     [p \in {<<"motto">>} |-> JStr("M")],
     [p \in {<<"siteTitle", "x">>} |-> JStr("X")],
     [p \in {} |-> JStr("")]}

-----------------------------------------------------------------------------
(* Specification: two clients, any interleaving *)

Steps(c) ==
    \/ create_insert(c)
    \/ create_fetch(c)
    \/ update_fetch(c)
    \/ reorder_step(c)

Next ==
    \E c \in Clients :
        \/ \E category \in Categories :
              calls < MaxCalls /\ CallGetListings(c, category)
        \/ \E id \in TargetIds :
              calls < MaxCalls /\ CallGetListing(c, id)
        \/ calls < MaxCalls /\ CallGetSettings(c)
        \/ \E pw \in Passwords :
              calls < MaxCalls /\ CallVerify(c, pw)
        \/ \E pw \in Passwords :
              calls < MaxCalls /\ update_settings(c, pw, SiteTitleX)
        \/ \E pw \in Passwords, body \in CreateBodies :
              calls < MaxCalls /\ create_listing(c, pw, body)
        \/ \E pw \in Passwords, id \in TargetIds, u \in UpdatePayloads :
              calls < MaxCalls /\ update_listing(c, id, u, pw)
        \/ \E pw \in Passwords, id \in TargetIds :
              calls < MaxCalls /\ delete_listing(c, id, pw)
        \/ \E pw \in Passwords, order \in Orders :
              calls < MaxCalls /\ reorder_listings(c, pw, order)
        \/ Steps(c)

Spec == Init /\ [][Next]_vars

-----------------------------------------------------------------------------
(* Specification: one client, so every request runs to completion before   *)
(* the next arrives; the collection starts seeded or full.                 *)

Reverse(s) == [i \in 1..Len(s) |-> s[Len(s) + 1 - i]]
\* The ids of the stored listings, oldest first
StoredIds(L) == NaturalOrder(DOMAIN L)

\* Orders a client submits: every listing, newest first; the same with a
\* malformed entry and an id that matches nothing; and a partial order.
SeqOrders ==
    {Reverse(StoredIds(listings)),
     <<0>> \o Reverse(StoredIds(listings)) \o <<nextOid>>,
     <<2, 1>>}

NextSeq ==
    \/ calls < MaxSeqCalls /\ create_listing("c1", ADMIN_PASSWORD, Lamp)
    \/ calls < MaxSeqCalls /\ delete_listing("c1", nextOid - 1, ADMIN_PASSWORD)
    \/ \E order \in SeqOrders :
          calls < MaxSeqCalls /\ reorder_listings("c1", ADMIN_PASSWORD, order)
    \/ create_insert("c1")
    \/ create_fetch("c1")
    \/ reorder_step("c1")

SpecSeq == InitSeq /\ [][NextSeq]_vars

-----------------------------------------------------------------------------
(* Specification: the settings routes alone *)

NextSettings ==
    \/ calls < MaxSettingsCalls /\ CallGetSettings("c1")
    \/ calls < MaxSettingsCalls /\ CallGetCategories("c1")
    \/ \E pw \in Passwords, data \in SettingsPayloads :
          calls < MaxSettingsCalls /\ update_settings("c1", pw, data)

SpecSettings == Init /\ [][NextSettings]_vars

-----------------------------------------------------------------------------
(* Specification: two clients reorder the same three listings, in opposite *)
(* orders, and list them; the position updates interleave freely.          *)

ReorderOrders == {<<1, 2, 3>>, <<3, 2, 1>>}

NextReorder ==
    \E c \in Clients :
        \/ \E order \in ReorderOrders :
              calls < MaxReorderCalls /\ reorder_listings(c, ADMIN_PASSWORD, order)
        \/ calls < MaxReorderCalls /\ CallGetListings(c, None)
        \/ reorder_step(c)

SpecReorder == Init /\ [][NextReorder]_vars

-----------------------------------------------------------------------------
(* Properties *)

Range(s) == {s[i] : i \in 1..Len(s)}
DupFree(s) == \A i, j \in 1..Len(s) : s[i] = s[j] => i = j
\* The ids of a List response, in its order
IdsOf(r) == [i \in 1..Len(r) |-> r[i].id]
\* The position of listing id in a List response, 0 when it is not in it
PosIn(r, id) ==
    IF \E i \in 1..Len(r) : r[i].id = id
    THEN CHOOSE i \in 1..Len(r) : r[i].id = id
    ELSE 0
StoredSortOrder(id) == listing_to_dict(id, listings[id]).sortOrder

\* C2 (as stated): after three Creates run back to back, the sortOrders of
\* the created listings increase strictly and an unfiltered List returns the
\* three listings, each before the next.
C2_CreatesListedInOrder ==
    Len(run) >= 3 =>
        LET r == get_listings(listings, None)
        IN  \A i \in 1..(Len(run) - 1) :
                /\ StoredSortOrder(run[i]) < StoredSortOrder(run[i + 1])
                /\ PosIn(r, run[i]) > 0
                /\ PosIn(r, run[i + 1]) > 0
                /\ PosIn(r, run[i]) < PosIn(r, run[i + 1])

\* C2 (amended): the sortOrders increase strictly; List returns the created
\* listings each before the next when the collection holds at most ListCap
\* listings, and beyond that those of them it still returns keep that order.
C2_CreatesOrderedWithinCap ==
    Len(run) >= 3 =>
        LET r == get_listings(listings, None)
        IN  \A i \in 1..(Len(run) - 1) :
                /\ StoredSortOrder(run[i]) < StoredSortOrder(run[i + 1])
                /\ (PosIn(r, run[i]) > 0 /\ PosIn(r, run[i + 1]) > 0)
                      => PosIn(r, run[i]) < PosIn(r, run[i + 1])
                /\ Cardinality(DOMAIN listings) <= ListCap
                      => (PosIn(r, run[i]) > 0 /\ PosIn(r, run[i + 1]) > 0)

\* C2 witness: three Creates ran back to back on a used collection (a
\* listing deleted, two reordered) and List returns all three.
C2_Witness ==
    /\ Len(run) >= 3
    /\ 5 \notin DOMAIN listings
    /\ listings[2].sortOrder = 0
    /\ Range(run) \subseteq Range(IdsOf(get_listings(listings, None)))

Stored(id) == id \in DOMAIN listings
\* The Reorder that just completed named every stored listing, once.
FullReorder ==
    /\ reordered # <<>>
    /\ DupFree(reordered)
    /\ DOMAIN listings \subseteq Range(reordered)

\* C3 (as stated): after a Reorder whose duplicate-free order names every
\* stored listing, an unfiltered List returns the listings in that order.
C3_ListFollowsOrder ==
    FullReorder => IdsOf(get_listings(listings, None)) = SelectSeq(reordered, Stored)

\* C3 (amended): List returns the first ListCap listings of that order, which
\* are all of them when the collection holds at most ListCap listings.
C3_ListFollowsOrderWithinCap ==
    FullReorder =>
        IdsOf(get_listings(listings, None))
            = SubSeq(SelectSeq(reordered, Stored), 1,
                     Min(Cardinality(DOMAIN listings), ListCap))

\* C3 witness: a Reorder of a collection that holds seeded listings (stored
\* without sortOrder) and a created one completed, its order also naming a
\* malformed id and an id that matches nothing, and List returns that order.
C3_Witness ==
    /\ FullReorder
    /\ 0 \in Range(reordered)
    /\ \E id \in Range(reordered) : id >= 1 /\ ~Stored(id)
    /\ {1, 2, 6} \subseteq DOMAIN listings
    /\ IdsOf(get_listings(listings, None)) = SelectSeq(reordered, Stored)

\* C6 (as stated): every listing a successful Create returned, and that was
\* not deleted since, is in the unfiltered List.
C6_CreatedIsListed ==
    (returned \cap DOMAIN listings) \subseteq Range(IdsOf(get_listings(listings, None)))

\* C6 (amended): the same while the collection holds at most ListCap listings.
C6_CreatedIsListedWithinCap ==
    Cardinality(DOMAIN listings) <= ListCap =>
        (returned \cap DOMAIN listings) \subseteq Range(IdsOf(get_listings(listings, None)))

\* C6 witness: a collection of exactly ListCap listings, the last of them
\* returned by a Create of this behaviour and listed.
C6_Witness ==
    /\ Cardinality(DOMAIN listings) = ListCap
    /\ resp["c1"].op = "create_listing" /\ resp["c1"].status = 200
    /\ resp["c1"].body[1].id \in returned \cap DOMAIN listings
    /\ resp["c1"].body[1].id \in Range(IdsOf(get_listings(listings, None)))

-----------------------------------------------------------------------------
(* Properties of the two-client specification *)

MutatingOps ==
    {"update_settings", "create_listing", "update_listing", "delete_listing",
     "reorder_listings"}
\* The step receives a request.
Received == calls' = calls + 1

\* C1 (as stated): a call of a mutating endpoint with a wrong password is
\* answered 401 and changes neither the listings nor the settings.
C1_WrongPasswordUnauthorized ==
    [][(Received /\ last'.op \in MutatingOps /\ ~verify_admin(last'.pw))
          => /\ resp'[last'.c].status = 401
             /\ listings' = listings
             /\ site_settings' = site_settings]_vars

\* C4 (as stated): the sortOrder values a List response reports are
\* non-decreasing along the response.
C4_ListSortedBySortOrder ==
    \A c \in Clients :
        resp[c].op = "get_listings" =>
            \A i \in 1..(Len(resp[c].body) - 1) :
                resp[c].body[i].sortOrder <= resp[c].body[i + 1].sortOrder

\* C5 (as stated): List(category = X) returns only listings of category X
\* for every X other than "all", the empty string included, and
\* List(category = "all") returns what List() returns.
C5_FilterExact ==
    /\ \A X \in Categories \ {None, "all"} :
          \A i \in 1..Len(get_listings(listings, X)) :
              get_listings(listings, X)[i].category = X
    /\ get_listings(listings, "all") = get_listings(listings, None)

\* C5 (amended): List(category = X) returns only listings of category X for
\* every X other than "all" and the empty string; List(category = "all") and
\* List(category = "") return what List() returns.
C5_FilterExactNonEmpty ==
    /\ \A X \in Categories \ {None, "all", ""} :
          \A i \in 1..Len(get_listings(listings, X)) :
              get_listings(listings, X)[i].category = X
    /\ get_listings(listings, "all") = get_listings(listings, None)
    /\ get_listings(listings, "") = get_listings(listings, None)

\* C5 witness: List(category = "tools") was answered with some but not all
\* of the listings, among them a listing an Update moved to "tools".
C5_Witness ==
    /\ last.op = "get_listings" /\ last.upd.category = "tools"
    /\ resp[last.c].op = "get_listings"
    /\ resp[last.c].body = get_listings(listings, "tools")
    /\ Len(resp[last.c].body) < Cardinality(DOMAIN listings)
    /\ \E i \in 1..Len(resp[last.c].body) :
          resp[last.c].body[i].id = 1 /\ resp[last.c].body[i].category = "tools"

\* The payload carries no field with a non-null value.
AllNull(updates) == \A k \in DOMAIN updates : updates[k] = None

\* C7: an authorized Update of an existing listing whose payload carries no
\* non-null field is answered 400 and leaves the collection, updatedAt
\* included, as it was.
C7_EmptyUpdateRejected ==
    [][(/\ Received /\ last'.op = "update_listing" /\ verify_admin(last'.pw)
        /\ last'.id \in DOMAIN listings /\ AllNull(last'.upd))
          => /\ resp'[last'.c].op = "update_listing"
             /\ resp'[last'.c].status = 400
             /\ listings' = listings]_vars

\* C7 witness: an authorized Update of a stored listing with a payload whose
\* fields are all null was answered 400.
C7_Witness ==
    /\ last.op = "update_listing" /\ verify_admin(last.pw)
    /\ last.id \in DOMAIN listings
    /\ DOMAIN last.upd # {} /\ AllNull(last.upd)
    /\ resp[last.c].op = "update_listing" /\ resp[last.c].status = 400

\* C8: a listing whose Delete succeeded stays gone: Get and Delete of its id
\* are answered 404 in every later state.
C8_DeletedStaysGone ==
    \A id \in deleted :
        /\ get_listing(listings, id).status = 404
        /\ delete_result(listings, id, ADMIN_PASSWORD).status = 404

\* C8 witness: an authorized Update with a field to set arrived for a deleted
\* listing and was answered 404, the listing still gone.
C8_Witness ==
    /\ last.op = "update_listing" /\ verify_admin(last.pw)
    /\ last.id \in deleted
    /\ ListingUpdateValid(last.upd) /\ DOMAIN UpdateData(last.upd) # {}
    /\ resp[last.c].op = "update_listing" /\ resp[last.c].status = 404
    /\ last.id \notin DOMAIN listings

\* C10 (as stated): the listing a Create inserts has a sortOrder greater than
\* that of every listing in the collection when it is inserted.
C10_CreateAppends ==
    [][\A c \in Clients :
          (pc[c] = "create_insert" /\ pc'[c] = "create_fetch")
             => \A i \in DOMAIN listings :
                   HasField(listings[i], "sortOrder")
                      => listings[i].sortOrder < listings'[nextOid].sortOrder]_vars

\* The step is a position update of the Reorder of client c.
ReorderStepOf(c) ==
    pc[c] = "reorder" /\ (pc'[c] # pc[c] \/ loc'[c] # loc[c])
\* The fields of a stored listing other than sortOrder
OtherFields(doc) == [k \in DOMAIN doc \ {"sortOrder"} |-> doc[k]]

\* C11: a position update of Reorder(order) leaves the set of stored ids as
\* it was, changes no field other than sortOrder of any listing, and leaves
\* every listing whose id is not in order entirely as it was.
C11_ReorderTouchesOnlySortOrder ==
    [][\A c \in Clients :
          ReorderStepOf(c) =>
             /\ DOMAIN listings' = DOMAIN listings
             /\ \A id \in DOMAIN listings :
                   /\ OtherFields(listings'[id]) = OtherFields(listings[id])
                   /\ id \notin Range(loc[c].order) => listings'[id] = listings[id]]_vars

\* C11 witness: the Reorder of (malformed id, id of no listing, 1) completed:
\* listing 1 holds position 2, listing 2 still has no sortOrder, and no
\* listing was made for the id that matched nothing.
C11_Witness ==
    /\ \E c \in Clients : resp[c].op = "reorder_listings" /\ resp[c].status = 200
    /\ 1 \in DOMAIN listings /\ HasField(listings[1], "sortOrder")
    /\ listings[1].sortOrder = 2
    /\ 2 \in DOMAIN listings /\ ~HasField(listings[2], "sortOrder")
    /\ 6 \notin DOMAIN listings /\ nextOid = 6

-----------------------------------------------------------------------------
(* Properties of the reorder specification *)

\* The unfiltered List restricted to the listings in ids, as their ids
ListedAmong(ids) ==
    LET Among(id) == id \in ids
    IN  SelectSeq(IdsOf(get_listings(listings, None)), Among)
\* Both clients have completed a Reorder, of the same stored listings, each
\* named once, and no request is in flight.
BothReordered ==
    /\ \A c \in Clients :
          /\ pc[c] = "idle"
          /\ submitted[c].order # <<>>
          /\ DupFree(submitted[c].order)
          /\ Range(submitted[c].order) \subseteq DOMAIN listings
    /\ \A c, d \in Clients : Range(submitted[c].order) = Range(submitted[d].order)
\* List returns the reordered listings in the order of neither client.
NeitherOrder ==
    \A c \in Clients : ListedAmong(Range(submitted[c].order)) # submitted[c].order

\* C12: once both Reorders are complete, List returns the listings in an
\* order neither client submitted only if position updates of the two calls
\* interleaved: Reorders that run one after the other leave the later order.
C12_NeitherOrderOnlyInterleaved ==
    (BothReordered /\ NeitherOrder) => \E c \in Clients : submitted[c].overlapped

\* C12 witness: two Reorders of opposite orders interleaved and completed,
\* and the List answered after them puts first a listing that is first in
\* neither order, its sortOrder below that of the other listings.
C12_Witness ==
    /\ BothReordered /\ NeitherOrder
    /\ \A c \in Clients : submitted[c].overlapped
    /\ submitted["c1"].order # submitted["c2"].order
    /\ last.op = "get_listings" /\ resp[last.c].op = "get_listings"
    /\ resp[last.c].body = get_listings(listings, None)
    /\ LET ids == Range(submitted["c1"].order)
           first == ListedAmong(ids)[1]
       IN  /\ \A c \in Clients : first # submitted[c].order[1]
           /\ \A id \in ids \ {first} :
                 listings[first].sortOrder < listings[id].sortOrder

-----------------------------------------------------------------------------
(* Properties of the settings specification *)

\* C9 (as stated): Get returns, for every key of DEFAULT_SETTINGS, the value
\* of the latest successful Update that supplied the key, and the default
\* when no Update supplied it.
C9_GetMergesSupplied ==
    resp["c1"].op = "get_settings" =>
        \A k \in DOMAIN DEFAULT_SETTINGS :
            sresp[k] = IF k \in DOMAIN supplied THEN supplied[k]
                       ELSE DEFAULT_SETTINGS[k]

====
